---- MODULE Spec2Model ----
(***************************************************************************)
(* Model of the report-analyser front ends: digidoc.py (multi-file upload, *)
(* chunked report analysis over one chat), digidoc1.py and app2.py (single *)
(* upload, one generate_content call).                                     *)
(*                                                                         *)
(* Text is a sequence of one-character strings.  The fixed blocks of a     *)
(* prompt template, and the gender value, are each one symbol of the       *)
(* sequence: none of them holds a brace or is whitespace-only, so slicing, *)
(* strip() and replace() on the variable parts behave as on characters.    *)
(***************************************************************************)
EXTENDS Integers, Sequences, FiniteSets, TLC

VARIABLES
    variant,            \* which script runs: "digidoc", "digidoc1", "app2"
    api_key,            \* os.getenv("GOOGLE_API_KEY") is set
    configured,         \* genai.configure was called
    gender,             \* the selectbox value
    uploaded_files,     \* the file_uploader value (a list; one file at most in digidoc1/app2)
    pc,                 \* position in the script
    file_idx,           \* upload loop position (1-based)
    report_text,        \* digidoc.py:213
    image_context,      \* digidoc.py:214
    text_data,          \* digidoc1.py:106 / app2.py:65
    analysis_prompt,    \* digidoc.py:48 (local of analyze_report_content)
    chat,               \* digidoc.py:66 (local): [open, id, history]
    chats_started,      \* number of start_chat calls so far
    summarized_report,  \* digidoc.py:69 (local)
    chunks,             \* digidoc.py:72 (local)
    chunk_idx,          \* position of the for loop of digidoc.py:75 (1-based)
    responses,          \* digidoc.py:73 (local)
    in_flight,          \* requests sent to the reasoner and not yet answered
    sent,               \* every chat.send_message of digidoc.py:76 begun, in order
    response,           \* digidoc.py:224 / :239
    analysis_results,   \* st.session_state['analysis_results']
    errors,             \* st.error messages shown, in order
    display,            \* st.subheader / st.text / st.write output, in order
    ops,                \* extractions and reasoner requests started, in order
    crashed             \* the uncaught exception that ended the script, or "none"

vars == <<variant, api_key, configured, gender, uploaded_files, pc, file_idx,
          report_text, image_context, text_data, analysis_prompt, chat,
          chats_started, summarized_report, chunks, chunk_idx, responses,
          in_flight, sent, response, analysis_results, errors, display, ops,
          crashed>>

(***************************************************************************)
(* Bounds of the model.                                                    *)
(***************************************************************************)
SmallLen == 3       \* report texts of length 0..SmallLen
Delta == 2          \* and of length k*1000 - Delta .. k*1000 + Delta, k = 1, 2
MaxPages == 3       \* pages of a PDF in the extraction specification
MaxFiles == 3       \* files uploaded in one run of digidoc.py

(***************************************************************************)
(* Program constants.                                                      *)
(***************************************************************************)
max_length == 1000
ChunkSize == 1000

(***************************************************************************)
(* Python string operations.                                               *)
(***************************************************************************)
Min(a, b) == IF a < b THEN a ELSE b

\* s[i:j] for 0 <= i <= j (0-based, j exclusive, clipped to the length)
Slice(s, i, j) == SubSeq(s, i + 1, Min(j, Len(s)))

RECURSIVE Concat(_)
Concat(ss) == IF ss = <<>> THEN <<>> ELSE Head(ss) \o Concat(Tail(ss))

\* sep.join(ss)
RECURSIVE Join(_, _)
Join(sep, ss) ==
    IF ss = <<>> THEN <<>>
    ELSE IF Len(ss) = 1 THEN Head(ss)
    ELSE Head(ss) \o sep \o Join(sep, Tail(ss))

IsSpace(c) == c \in {" ", "\n", "\t"}

\* the number of whitespace characters before the first other one (there is one)
LeadingSpaces(s) ==
    CHOOSE k \in 0..(Len(s) - 1) :
        ~IsSpace(s[k + 1]) /\ \A j \in 1..k : IsSpace(s[j])

\* the number of whitespace characters after the last other one (there is one)
TrailingSpaces(s) ==
    CHOOSE k \in 0..(Len(s) - 1) :
        ~IsSpace(s[Len(s) - k]) /\ \A j \in 0..(k - 1) : IsSpace(s[Len(s) - j])

\* s.strip(): leading and trailing whitespace removed
Strip(s) ==
    IF \A i \in 1..Len(s) : IsSpace(s[i]) THEN <<>>
    ELSE SubSeq(s, LeadingSpaces(s) + 1, Len(s) - TrailingSpaces(s))

\* s.replace(old, new) for non-empty old: leftmost non-overlapping occurrences
RECURSIVE ReplaceFrom(_, _, _, _)
ReplaceFrom(s, old, new, from) ==
    LET hits == {i \in from..(Len(s) - Len(old) + 1) :
                    SubSeq(s, i, i + Len(old) - 1) = old}
    IN  IF hits = {} THEN SubSeq(s, from, Len(s))
        ELSE LET i == CHOOSE h \in hits : \A g \in hits : h <= g
             IN  SubSeq(s, from, i - 1) \o new
                    \o ReplaceFrom(s, old, new, i + Len(old))

Replace(s, old, new) == ReplaceFrom(s, old, new, 1)

\* str(n) for n >= 0
Digit(d) == <<"0", "1", "2", "3", "4", "5", "6", "7", "8", "9">>[d + 1]

RECURSIVE IntToStr(_)
IntToStr(n) == IF n < 10 THEN <<Digit(n)>>
               ELSE IntToStr(n \div 10) \o <<Digit(n % 10)>>

(***************************************************************************)
(* digidoc.py: summarize_report, the chunking and the prompt.              *)
(***************************************************************************)
Ellipsis == <<".", ".", ".">>

\* the same with >= for >: the boundary length is truncated too
summarize_report_ge(text) ==
    IF Len(text) >= max_length THEN Slice(text, 0, max_length) \o Ellipsis
    ELSE text

summarize_report(text) ==
    IF Len(text) > max_length THEN Slice(text, 0, max_length) \o Ellipsis
    ELSE text

\* [s[i:i + 1000] for i in range(0, len(s), 1000)]
ChunksOf(s) ==
    [k \in 1..((Len(s) + ChunkSize - 1) \div ChunkSize) |->
        Slice(s, (k - 1) * ChunkSize, k * ChunkSize)]

Placeholder == <<"{", "r", "e", "p", "o", "r", "t", "_", "t", "e", "x", "t", "}">>

TemplateHead == <<"\n    You are an advanced AI medical assistant. [...]\n\n    Patient Gender: ">>
TemplateMid == <<"\n\n    Report Text:\n    ">>
TemplateTail == <<"\n    ">>

\* the f-string of digidoc.py:48-62, evaluated with the whole report text
AnalysisPrompt(text, g) ==
    TemplateHead \o <<g>> \o TemplateMid \o text \o TemplateTail

\* analysis_prompt.replace("{report_text}", chunk)
ChunkPrompt(prompt, chunk) == Replace(prompt, Placeholder, chunk)

(***************************************************************************)
(* Inputs.                                                                 *)
(***************************************************************************)
\* a text of n characters; pattern 1 has no whitespace, pattern 2 has
Fill(n, p) ==
    [i \in 1..n |-> IF p = 1 THEN <<"a", "b", "c">>[(i % 3) + 1]
                    ELSE <<"x", " ">>[(i % 2) + 1]]

Lengths ==
    (0..SmallLen)
        \cup ((ChunkSize - Delta)..(ChunkSize + Delta))
        \cup ((2 * ChunkSize - Delta)..(2 * ChunkSize + Delta))

\* report texts handed to analyze_report_content; one holds the literal
\* "{report_text}"
Texts == {Fill(n, p) : n \in Lengths, p \in 1..2} \cup {<<"H", "b">> \o Placeholder}

\* response.text of a reasoner reply
Replies == {<<"R", "1">>, <<"R", "2">>}

Genders == {"Male", "Female", "Other"}

NoChat == [open |-> FALSE, id |-> 0, history |-> <<>>]

\* every variable but variant, api_key, configured, gender, uploaded_files, pc,
\* report_text
InitRest ==
    /\ file_idx = 1
    /\ image_context = <<>>
    /\ text_data = <<>>
    /\ analysis_prompt = <<>>
    /\ chat = NoChat
    /\ chats_started = 0
    /\ summarized_report = <<>>
    /\ chunks = <<>>
    /\ chunk_idx = 1
    /\ responses = <<>>
    /\ in_flight = {}
    /\ sent = <<>>
    /\ response = <<>>
    /\ analysis_results = <<>>
    /\ errors = <<>>
    /\ display = <<>>
    /\ ops = <<>>
    /\ crashed = "none"

(***************************************************************************)
(* digidoc.py: analyze_report_content, one action per step.                *)
(***************************************************************************)
LocalsDropped ==
    /\ analysis_prompt' = <<>>
    /\ chat' = NoChat
    /\ summarized_report' = <<>>
    /\ chunks' = <<>>
    /\ chunk_idx' = 1
    /\ responses' = <<>>

\* digidoc.py:48-73
AnalyzeStart ==
    /\ pc = "analyze_entry"
    /\ analysis_prompt' = AnalysisPrompt(report_text, gender)
    /\ chat' = [open |-> TRUE, id |-> chats_started + 1, history |-> <<>>]
    /\ chats_started' = chats_started + 1
    /\ summarized_report' = summarize_report(report_text)
    /\ chunks' = ChunksOf(summarize_report(report_text))
    /\ responses' = <<>>
    /\ chunk_idx' = 1
    /\ pc' = "chunk_loop"
    /\ UNCHANGED <<variant, api_key, configured, gender, uploaded_files, file_idx,
                   report_text, image_context, text_data, in_flight, sent,
                   response, analysis_results, errors, display, ops, crashed>>

\* a loop that sends the next chunk without waiting for the reply
SendChunk_nowait ==
    /\ pc = "chunk_loop"
    /\ chunk_idx <= Len(chunks)
    /\ sent' = Append(sent, [chat |-> chat.id, chunk |-> chunk_idx,
                             prompt |-> ChunkPrompt(analysis_prompt, chunks[chunk_idx])])
    /\ in_flight' = in_flight \cup {chunk_idx}
    /\ ops' = Append(ops, "report_request")
    /\ chunk_idx' = chunk_idx + 1
    /\ UNCHANGED <<variant, api_key, configured, gender, uploaded_files, pc, file_idx,
                   report_text, image_context, text_data, analysis_prompt, chat,
                   chats_started, summarized_report, chunks, responses,
                   response, analysis_results, errors, display, crashed>>

\* digidoc.py:75-76: chat.send_message(...) is called for the next chunk
SendChunk ==
    /\ pc = "chunk_loop"
    /\ chunk_idx <= Len(chunks)
    /\ sent' = Append(sent, [chat |-> chat.id, chunk |-> chunk_idx,
                             prompt |-> ChunkPrompt(analysis_prompt, chunks[chunk_idx])])
    /\ in_flight' = in_flight \cup {chunk_idx}
    /\ ops' = Append(ops, "report_request")
    /\ pc' = "await_reply"
    /\ UNCHANGED <<variant, api_key, configured, gender, uploaded_files, file_idx,
                   report_text, image_context, text_data, analysis_prompt, chat,
                   chats_started, summarized_report, chunks, chunk_idx, responses,
                   response, analysis_results, errors, display, crashed>>

\* digidoc.py:76-77: send_message returns; the chat keeps the turn
ReasonerReply ==
    /\ pc = "await_reply"
    /\ \E r \in Replies :
        /\ responses' = Append(responses, r)
        /\ chat' = [chat EXCEPT !.history =
                        @ \o <<[role |-> "user", text |-> sent[Len(sent)].prompt],
                               [role |-> "model", text |-> r]>>]
    /\ in_flight' = in_flight \ {chunk_idx}
    /\ chunk_idx' = chunk_idx + 1
    /\ pc' = "chunk_loop"
    /\ UNCHANGED <<variant, api_key, configured, gender, uploaded_files, file_idx,
                   report_text, image_context, text_data, analysis_prompt,
                   chats_started, summarized_report, chunks, sent,
                   response, analysis_results, errors, display, ops, crashed>>

ErrorMessage(kind) ==
    IF kind = "StopCandidateException"
    THEN "The model did not provide a valid response. Please try again."
    ELSE "An error occurred: ..."

\* a handler that returns what was collected before the failure
ErrorResult_partial(collected) == Join(<<"\n">>, collected)

\* digidoc.py:82, :85: return ""
ErrorResult(collected) == <<>>

\* digidoc.py:76-77 raising, and the handlers of :80-85
ReasonerFail ==
    /\ pc = "await_reply"
    /\ \E kind \in {"StopCandidateException", "Exception"} :
        errors' = Append(errors, ErrorMessage(kind))
    /\ response' = ErrorResult(responses)
    /\ in_flight' = in_flight \ {chunk_idx}
    /\ LocalsDropped
    /\ pc' = "display_report"
    /\ UNCHANGED <<variant, api_key, configured, gender, uploaded_files, file_idx,
                   report_text, image_context, text_data, chats_started, sent,
                   analysis_results, display, ops, crashed>>

\* digidoc.py:79
AnalyzeReturn ==
    /\ pc = "chunk_loop"
    /\ chunk_idx > Len(chunks)
    /\ response' = Join(<<"\n">>, responses)
    /\ LocalsDropped
    /\ pc' = "display_report"
    /\ UNCHANGED <<variant, api_key, configured, gender, uploaded_files, file_idx,
                   report_text, image_context, text_data, chats_started, in_flight,
                   sent, analysis_results, errors, display, ops, crashed>>

Analyze ==
    \/ AnalyzeStart
    \/ SendChunk
    \/ ReasonerReply
    \/ ReasonerFail
    \/ AnalyzeReturn

(***************************************************************************)
(* analyze_report_content called on any report text and gender.            *)
(***************************************************************************)
InitAnalyze ==
    /\ variant = "digidoc"
    /\ api_key = TRUE
    /\ configured = TRUE
    /\ gender \in Genders
    /\ uploaded_files = <<>>
    /\ report_text \in Texts
    /\ pc = "analyze_entry"
    /\ InitRest

SpecAnalyze == InitAnalyze /\ [][Analyze]_vars

(***************************************************************************)
(* PDF text extraction.  A page is the text its extract_text() yields; for *)
(* a page without text pdfplumber yields None or "" (both falsy at         *)
(* digidoc.py:102) and PyPDF2 yields "".                                   *)
(***************************************************************************)
\* f"\n\nPage {page_number + 1}:\n", page_number counted from 0
PageHeader(page_number) ==
    <<"\n", "\n", "P", "a", "g", "e", " ">> \o IntToStr(page_number + 1) \o <<":", "\n">>

\* digidoc.py:88-104
extract_text_from_pdf(pages) ==
    Concat([i \in 1..Len(pages) |->
        IF pages[i] # <<>> /\ Strip(pages[i]) # <<>>
        THEN PageHeader(i - 1) \o pages[i]
        ELSE <<>>])

\* digidoc1.py:47-55, app2.py:27-35
input_pdf_setup(pages) == Concat(pages)

(***************************************************************************)
(* Uploaded files.  ok: the bytes decode (pdfplumber.open / PdfReader /    *)
(* Image.open succeed); reply: what the reasoner answers about an image.   *)
(***************************************************************************)
PdfFile(pages) == [kind |-> "pdf", ok |-> TRUE, pages |-> pages, reply |-> <<>>]
CorruptPdf == [kind |-> "pdf", ok |-> FALSE, pages |-> <<>>, reply |-> <<>>]
ImageFile(reply) == [kind |-> "image", ok |-> TRUE, pages |-> <<>>, reply |-> reply]
CorruptImage == [kind |-> "image", ok |-> FALSE, pages |-> <<>>, reply |-> <<>>]

SeqsUpTo(S, n) == UNION {[1..k -> S] : k \in 0..n}

PageTexts == {<<>>, <<" ", " ">>, <<"H", "b">>, <<" ", "x", "\n">>}

PdfEmpty == PdfFile(<< <<>> >>)
PdfBlankThenHb == PdfFile(<< <<>>, <<" ", " ">>, <<"H", "b">> >>)
PdfLong == PdfFile(<< Fill(ChunkSize, 1) >>)

UploadFiles ==
    {CorruptPdf, PdfEmpty, PdfBlankThenHb, PdfLong,
     ImageFile(<<"I", "1">>), ImageFile(<<"I", "2">>), CorruptImage}

Variants == {"digidoc", "digidoc1", "app2"}

\* digidoc.py:208, digidoc1.py:84; app2.py asks for none
GenderOptions(v) ==
    IF v = "digidoc" THEN Genders
    ELSE IF v = "digidoc1"
         THEN {"Select", "Male", "Female", "Non-binary", "Prefer not to say"}
         ELSE {"n/a"}

\* digidoc.py:211 accepts several files; digidoc1.py:89 one image or PDF;
\* app2.py:61 one PDF
UploadsOf(v) ==
    IF v = "digidoc" THEN SeqsUpTo(UploadFiles, MaxFiles)
    ELSE IF v = "digidoc1" THEN SeqsUpTo(UploadFiles, 1)
         ELSE SeqsUpTo({f \in UploadFiles : f.kind = "pdf"}, 1)

(***************************************************************************)
(* The scripts, one action per step.                                       *)
(***************************************************************************)
\* digidoc.py:10-18, digidoc1.py:10-18, app2.py:10-18.  In digidoc.py the
\* rest of the script is not under the else.
Startup ==
    /\ pc = "startup"
    /\ IF api_key
       THEN configured' = TRUE /\ errors' = errors
       ELSE configured' = configured
            /\ errors' = Append(errors, "API key is not set. Please check your .env file.")
    /\ pc' = IF variant = "digidoc" THEN "upload_loop"
             ELSE IF api_key THEN "upload_single" ELSE "done"
    /\ UNCHANGED <<variant, api_key, gender, uploaded_files, file_idx, report_text,
                   image_context, text_data, analysis_prompt, chat, chats_started,
                   summarized_report, chunks, chunk_idx, responses, in_flight, sent,
                   response, analysis_results, display, ops, crashed>>

\* report_text += ... : every PDF kept
StoreReport_concat(old, extracted) == old \o extracted

\* digidoc.py:218: report_text = ...
StoreReport(old, extracted) == extracted

\* digidoc.py:216-218 with extract_text_from_pdf; a PDF that does not open
\* raises out of the loop and ends the script
UploadPdf ==
    /\ pc = "upload_loop"
    /\ file_idx <= Len(uploaded_files)
    /\ uploaded_files[file_idx].kind = "pdf"
    /\ ops' = Append(ops, "extract_pdf")
    /\ IF uploaded_files[file_idx].ok
       THEN /\ report_text' =
                StoreReport(report_text, extract_text_from_pdf(uploaded_files[file_idx].pages))
            /\ file_idx' = file_idx + 1
            /\ UNCHANGED <<pc, crashed>>
       ELSE /\ crashed' = "PDFSyntaxError"
            /\ pc' = "crashed"
            /\ UNCHANGED <<report_text, file_idx>>
    /\ UNCHANGED <<variant, api_key, configured, gender, uploaded_files,
                   image_context, text_data, analysis_prompt, chat, chats_started,
                   summarized_report, chunks, chunk_idx, responses, in_flight, sent,
                   response, analysis_results, errors, display>>

\* digidoc.py:219-220 with handle_image_uploads, input_image_setup and
\* get_gemini_image_response; nothing catches Image.open or generate_content
UploadImage ==
    /\ pc = "upload_loop"
    /\ file_idx <= Len(uploaded_files)
    /\ uploaded_files[file_idx].kind = "image"
    /\ \E answered \in BOOLEAN :
        IF ~uploaded_files[file_idx].ok
        THEN /\ ops' = Append(ops, "open_image")
             /\ crashed' = "UnidentifiedImageError"
             /\ pc' = "crashed"
             /\ UNCHANGED <<image_context, file_idx, display>>
        ELSE IF answered
        THEN /\ ops' = ops \o <<"open_image", "image_request">>
             /\ display' = Append(display, <<"Uploaded Image", <<>>>>)
             /\ image_context' = image_context \o (<<>> \o uploaded_files[file_idx].reply)
             /\ file_idx' = file_idx + 1
             /\ UNCHANGED <<pc, crashed>>
        ELSE /\ ops' = ops \o <<"open_image", "image_request">>
             /\ display' = Append(display, <<"Uploaded Image", <<>>>>)
             /\ crashed' = "ReasonerError"
             /\ pc' = "crashed"
             /\ UNCHANGED <<image_context, file_idx>>
    /\ UNCHANGED <<variant, api_key, configured, gender, uploaded_files, report_text,
                   text_data, analysis_prompt, chat, chats_started,
                   summarized_report, chunks, chunk_idx, responses, in_flight, sent,
                   response, analysis_results, errors>>

\* digidoc.py:215-216: the loop has passed every file
UploadDone ==
    /\ pc = "upload_loop"
    /\ file_idx > Len(uploaded_files)
    /\ pc' = "check_report"
    /\ UNCHANGED <<variant, api_key, configured, gender, uploaded_files, file_idx,
                   report_text, image_context, text_data, analysis_prompt, chat,
                   chats_started, summarized_report, chunks, chunk_idx, responses,
                   in_flight, sent, response, analysis_results, errors, display, ops,
                   crashed>>

\* digidoc.py:223-224
CheckReport ==
    /\ pc = "check_report"
    /\ pc' = IF report_text # <<>> THEN "analyze_entry" ELSE "check_image"
    /\ UNCHANGED <<variant, api_key, configured, gender, uploaded_files, file_idx,
                   report_text, image_context, text_data, analysis_prompt, chat,
                   chats_started, summarized_report, chunks, chunk_idx, responses,
                   in_flight, sent, response, analysis_results, errors, display, ops,
                   crashed>>

\* digidoc.py:225-226
DisplayReport ==
    /\ pc = "display_report"
    /\ display' = Append(display, <<"Report Analysis:", response>>)
    /\ pc' = "check_image"
    /\ UNCHANGED <<variant, api_key, configured, gender, uploaded_files, file_idx,
                   report_text, image_context, text_data, analysis_prompt, chat,
                   chats_started, summarized_report, chunks, chunk_idx, responses,
                   in_flight, sent, response, analysis_results, errors, ops, crashed>>

\* digidoc.py:229-231
DisplayImage ==
    /\ pc = "check_image"
    /\ display' = IF image_context # <<>>
                  THEN Append(display, <<"Image Analysis:", image_context>>)
                  ELSE display
    /\ pc' = "question"
    /\ UNCHANGED <<variant, api_key, configured, gender, uploaded_files, file_idx,
                   report_text, image_context, text_data, analysis_prompt, chat,
                   chats_started, summarized_report, chunks, chunk_idx, responses,
                   in_flight, sent, response, analysis_results, errors, ops, crashed>>

\* digidoc.py:234-240 with get_response_with_context: its own chat, one
\* request, nothing caught.  First disjunct: the button is not pressed or the
\* input is empty; second: the reasoner answers; third: it raises.
AskQuestion ==
    /\ pc = "question"
    /\ \/ /\ pc' = "done"
          /\ UNCHANGED <<ops, chats_started, response, display, crashed>>
       \/ \E r \in Replies :
          /\ ops' = Append(ops, "question_request")
          /\ chats_started' = chats_started + 1
          /\ response' = r
          /\ display' = Append(display, <<"", r>>)
          /\ pc' = "done"
          /\ UNCHANGED crashed
       \/ /\ ops' = Append(ops, "question_request")
          /\ chats_started' = chats_started + 1
          /\ crashed' = "ReasonerError"
          /\ pc' = "crashed"
          /\ UNCHANGED <<response, display>>
    /\ UNCHANGED <<variant, api_key, configured, gender, uploaded_files, file_idx,
                   report_text, image_context, text_data, analysis_prompt, chat,
                   summarized_report, chunks, chunk_idx, responses, in_flight, sent,
                   analysis_results, errors>>

\* digidoc1.py:91, app2.py:63: nothing uploaded
NoUpload ==
    /\ pc = "upload_single"
    /\ uploaded_files = <<>>
    /\ pc' = "done"
    /\ UNCHANGED <<variant, api_key, configured, gender, uploaded_files, file_idx,
                   report_text, image_context, text_data, analysis_prompt, chat,
                   chats_started, summarized_report, chunks, chunk_idx, responses,
                   in_flight, sent, response, analysis_results, errors, display, ops,
                   crashed>>

\* digidoc1.py:93-103 with input_image_setup and get_gemini_response(image_data=...)
SingleImage ==
    /\ pc = "upload_single"
    /\ uploaded_files # <<>>
    /\ uploaded_files[1].kind = "image"
    /\ \E answered \in BOOLEAN :
        IF ~uploaded_files[1].ok
        THEN /\ ops' = Append(ops, "open_image")
             /\ crashed' = "UnidentifiedImageError"
             /\ pc' = "crashed"
             /\ UNCHANGED <<analysis_results, display>>
        ELSE IF answered
        THEN /\ ops' = ops \o <<"open_image", "image_request">>
             /\ display' = Append(display, <<"Uploaded Image.", <<>>>>)
             /\ analysis_results' = uploaded_files[1].reply
             /\ pc' = "display_single"
             /\ UNCHANGED crashed
        ELSE /\ ops' = ops \o <<"open_image", "image_request">>
             /\ display' = Append(display, <<"Uploaded Image.", <<>>>>)
             /\ crashed' = "ReasonerError"
             /\ pc' = "crashed"
             /\ UNCHANGED analysis_results
    /\ UNCHANGED <<variant, api_key, configured, gender, uploaded_files, file_idx,
                   report_text, image_context, text_data, analysis_prompt, chat,
                   chats_started, summarized_report, chunks, chunk_idx, responses,
                   in_flight, sent, response, errors>>

\* digidoc1.py:105-106, app2.py:63-65, with input_pdf_setup
SinglePdfExtract ==
    /\ pc = "upload_single"
    /\ uploaded_files # <<>>
    /\ uploaded_files[1].kind = "pdf"
    /\ ops' = Append(ops, "extract_pdf")
    /\ IF uploaded_files[1].ok
       THEN /\ text_data' = input_pdf_setup(uploaded_files[1].pages)
            /\ pc' = "analyze_single"
            /\ UNCHANGED crashed
       ELSE /\ crashed' = "PdfReadError"
            /\ pc' = "crashed"
            /\ UNCHANGED text_data
    /\ UNCHANGED <<variant, api_key, configured, gender, uploaded_files, file_idx,
                   report_text, image_context, analysis_prompt, chat,
                   chats_started, summarized_report, chunks, chunk_idx, responses,
                   in_flight, sent, response, analysis_results, errors, display>>

\* digidoc1.py:108-111 with analyze_report and get_gemini_response(text_data=...):
\* for a falsy text_data the function takes response = "No data provided." and
\* then reads response.text.  app2.py:68 with analyze_paper and its
\* get_gemini_response, which always calls generate_content.
SingleAnalyze ==
    /\ pc = "analyze_single"
    /\ \E r \in Replies, answered \in BOOLEAN :
        IF variant = "digidoc1" /\ gender = "Select"
        THEN /\ errors' = Append(errors, "Please select a gender to proceed with the analysis.")
             /\ pc' = "display_single"
             /\ UNCHANGED <<ops, analysis_results, crashed>>
        ELSE IF variant = "digidoc1" /\ text_data = <<>>
        THEN /\ crashed' = "AttributeError"
             /\ pc' = "crashed"
             /\ UNCHANGED <<ops, analysis_results, errors>>
        ELSE IF answered
        THEN /\ ops' = Append(ops, "report_request")
             /\ analysis_results' = r
             /\ pc' = "display_single"
             /\ UNCHANGED <<errors, crashed>>
        ELSE /\ ops' = Append(ops, "report_request")
             /\ crashed' = "ReasonerError"
             /\ pc' = "crashed"
             /\ UNCHANGED <<analysis_results, errors>>
    /\ UNCHANGED <<variant, api_key, configured, gender, uploaded_files, file_idx,
                   report_text, image_context, text_data, analysis_prompt, chat,
                   chats_started, summarized_report, chunks, chunk_idx, responses,
                   in_flight, sent, response, display>>

\* digidoc1.py:113-116, app2.py:70-73
DisplaySingle ==
    /\ pc = "display_single"
    /\ display' = Append(display, <<"Analysis Results:", analysis_results>>)
    /\ pc' = "done"
    /\ UNCHANGED <<variant, api_key, configured, gender, uploaded_files, file_idx,
                   report_text, image_context, text_data, analysis_prompt, chat,
                   chats_started, summarized_report, chunks, chunk_idx, responses,
                   in_flight, sent, response, analysis_results, errors, ops, crashed>>

(***************************************************************************)
(* One run of one script on any upload.                                    *)
(***************************************************************************)
Init ==
    /\ variant \in Variants
    /\ api_key \in BOOLEAN
    /\ configured = FALSE
    /\ gender \in GenderOptions(variant)
    /\ uploaded_files \in UploadsOf(variant)
    /\ report_text = <<>>
    /\ pc = "startup"
    /\ InitRest

Next ==
    \/ Startup
    \/ UploadPdf
    \/ UploadImage
    \/ UploadDone
    \/ CheckReport
    \/ Analyze
    \/ DisplayReport
    \/ DisplayImage
    \/ AskQuestion
    \/ NoUpload
    \/ SingleImage
    \/ SinglePdfExtract
    \/ SingleAnalyze
    \/ DisplaySingle

Spec == Init /\ [][Next]_vars

(***************************************************************************)
(* The extraction step of each script on any PDF that opens.               *)
(***************************************************************************)
InitExtract ==
    /\ variant \in Variants
    /\ api_key = TRUE
    /\ configured = TRUE
    /\ gender = IF variant = "app2" THEN "n/a" ELSE "Male"
    /\ \E pages \in SeqsUpTo(PageTexts, MaxPages) : uploaded_files = <<PdfFile(pages)>>
    /\ report_text = <<>>
    /\ pc = IF variant = "digidoc" THEN "upload_loop" ELSE "upload_single"
    /\ InitRest

NextExtract == UploadPdf \/ SinglePdfExtract

SpecExtract == InitExtract /\ [][NextExtract]_vars

(***************************************************************************)
(* Properties of analyze_report_content (checked under SpecAnalyze).       *)
(***************************************************************************)
\* the chunks of the current call exist (between digidoc.py:72 and the return)
Chunked == pc \in {"chunk_loop", "await_reply"}

\* C1: concatenating, in order, the chunks that analyze_report_content builds
\* gives back the report text exactly, whatever its length.
C1_ChunksReconstructReport ==
    Chunked => Concat(chunks) = report_text

\* C2 as stated: every report text of length 0..1000 is cut into exactly one
\* chunk, equal to the whole text.
C2_OneChunkUpToMax ==
    (Chunked /\ Len(report_text) <= max_length) => chunks = <<report_text>>

\* C2 as amended: every report text of length 1..1000 is cut into exactly one
\* chunk, equal to the whole text; the empty text is cut into no chunk.
C2_OneChunkFromOneToMax ==
    Chunked =>
        /\ (1 <= Len(report_text) /\ Len(report_text) <= max_length)
                => chunks = <<report_text>>
        /\ Len(report_text) = 0 => chunks = <<>>

\* a report of exactly max_length characters has been cut
C2_Witness ==
    /\ Chunked
    /\ Len(report_text) = max_length
    /\ Len(chunks) = 1

\* C4: the requests of one analysis go to one chat, one per chunk, in chunk
\* order 1..n; a request begins only when every earlier one has completed, so
\* at most one is in flight; a call that runs to its end has sent n requests.
C4_SequentialInOrder ==
    /\ Cardinality(in_flight) <= 1
    /\ in_flight \subseteq {Len(sent)}
    /\ \A k \in 1..Len(sent) : sent[k].chunk = k /\ sent[k].chat = sent[1].chat
    /\ Chunked =>
        /\ Len(sent) <= Len(chunks)
        /\ \A k \in 1..Len(sent) : sent[k].chat = chat.id
        /\ (pc = "chunk_loop" /\ chunk_idx > Len(chunks)) => Len(sent) = Len(chunks)

\* a two-chunk analysis whose second request was sent after the first reply
C4_Witness ==
    /\ pc = "await_reply"
    /\ Len(chunks) = 2
    /\ Len(sent) = 2
    /\ Len(responses) = 1
    /\ in_flight = {2}

\* C10: the prompt sent for chunk i is the analysis template filled with the
\* gender and with the text of chunk i, and of no other chunk.
C10_PromptCarriesItsChunk ==
    Chunked =>
        \A k \in 1..Len(sent) :
            sent[k].prompt = AnalysisPrompt(chunks[sent[k].chunk], gender)

(***************************************************************************)
(* Properties of the extraction step (checked under SpecExtract).          *)
(***************************************************************************)
IsBlank(text) == \A i \in 1..Len(text) : IsSpace(text[i])

ExtractDone ==
    IF variant = "digidoc" THEN file_idx = 2 ELSE pc = "analyze_single"

Extracted == IF variant = "digidoc" THEN report_text ELSE text_data

\* what the non-blank pages contribute, in page order; digidoc.py marks each
\* with its page header
NonBlankPages(pages) ==
    Concat([i \in 1..Len(pages) |->
        IF IsBlank(pages[i]) THEN <<>>
        ELSE (IF variant = "digidoc" THEN PageHeader(i - 1) ELSE <<>>) \o pages[i]])

\* C3: in every extraction routine a page whose text is absent or has no
\* non-whitespace character contributes nothing and raises nothing, and every
\* other page contributes its text once, in page order.
C3_BlankPagesContributeNothing ==
    ExtractDone =>
        /\ Extracted = NonBlankPages(uploaded_files[1].pages)
        /\ crashed = "none"

(***************************************************************************)
(* Properties of a run of a script (checked under Spec).                   *)
(***************************************************************************)
AnalysisErrors ==
    {ErrorMessage("StopCandidateException"), ErrorMessage("Exception")}

AnalysisFailed == \E i \in 1..Len(errors) : errors[i] \in AnalysisErrors

\* C5: when the reasoner fails the request of a chunk, first or later, the
\* analysis returns the empty result with an error shown (a successful
\* analysis shows none), sends no further request, and keeps nothing of the
\* request: no earlier response in the result, no chat history.
C5_FailedAnalysisKeepsNothing ==
    [][ /\ (pc = "await_reply" /\ pc' # "chunk_loop") =>
                /\ pc' = "display_report"
                /\ response' = <<>>
                /\ responses' = <<>>
                /\ chat' = NoChat
                /\ in_flight' = {}
                /\ sent' = sent
                /\ Len(errors') = Len(errors) + 1
                /\ errors'[Len(errors')] \in AnalysisErrors
        /\ AnalysisFailed => (sent' = sent /\ chat' = NoChat /\ AnalysisFailed')
        /\ (pc = "chunk_loop" /\ pc' = "display_report") => ~AnalysisFailed'
      ]_vars

\* the second chunk's request failed after the first was answered
C5_Witness ==
    /\ pc = "display_report"
    /\ AnalysisFailed
    /\ Len(sent) = 2
    /\ response = <<>>
    /\ chat = NoChat

Ended == pc \in {"done", "crashed"}

\* several files were uploaded, the credential is set, and exactly one file
\* does not decode
OneCorruptAmongSeveral ==
    /\ variant = "digidoc"
    /\ api_key
    /\ Len(uploaded_files) >= 2
    /\ Cardinality({i \in 1..Len(uploaded_files) : ~uploaded_files[i].ok}) = 1

\* C6: when one of several uploaded files fails to extract, the upload loop
\* of digidoc.py still passes every file, and the analyses of the valid
\* sources are shown: the script does not end before.
C6_FailedSourceDoesNotAbort ==
    (OneCorruptAmongSeveral /\ Ended /\ crashed # "ReasonerError") =>
        /\ file_idx > Len(uploaded_files)
        /\ (\E i \in 1..Len(uploaded_files) :
                uploaded_files[i].kind = "image" /\ uploaded_files[i].ok)
            => \E j \in 1..Len(display) : display[j][1] = "Image Analysis:"

\* C7: in every script, once the credential is found missing no extraction
\* and no reasoner request is ever started.
C7_NoOperationWithoutCredential ==
    ~api_key => ops = <<>>

\* the PDF of the run was read and no page gave text
EmptyExtraction ==
    IF variant = "digidoc"
    THEN /\ pc \in {"check_image", "question", "done"}
         /\ report_text = <<>>
         /\ \E i \in 1..Len(uploaded_files) : uploaded_files[i].kind = "pdf"
    ELSE /\ pc \in {"display_single", "done", "crashed"}
         /\ uploaded_files # <<>>
         /\ uploaded_files[1].kind = "pdf" /\ uploaded_files[1].ok
         /\ text_data = <<>>

\* C8: in every script an uploaded document whose extracted text is empty is
\* nothing to analyze: no reasoner request is issued for it and no error or
\* exception results.
C8_EmptyTextIsNothingToAnalyze ==
    EmptyExtraction =>
        /\ \A i \in 1..Len(ops) : ops[i] # "report_request"
        /\ sent = <<>>
        /\ variant # "digidoc" => crashed = "none"
        /\ ~AnalysisFailed

IsPdf(f) == f.kind = "pdf"
IsImage(f) == f.kind = "image"

LastPdfText ==
    LET pdfs == SelectSeq(uploaded_files, IsPdf)
    IN  IF pdfs = <<>> THEN <<>> ELSE extract_text_from_pdf(pdfs[Len(pdfs)].pages)

AllImageReplies ==
    LET images == SelectSeq(uploaded_files, IsImage)
    IN  Concat([i \in 1..Len(images) |-> images[i].reply])

LoopCompleted ==
    /\ variant = "digidoc"
    /\ pc \notin {"startup", "upload_loop"}
    /\ file_idx > Len(uploaded_files)

\* C9: once the upload loop of digidoc.py has passed every file, report_text
\* is the extraction of the last PDF alone and image_context the analyses of
\* all images in upload order, wherever PDFs and images stand in the
\* sequence; when the last PDF extracts to nothing no report analysis is run.
C9_LastPdfWinsImagesAccumulate ==
    LoopCompleted =>
        /\ report_text = LastPdfText
        /\ image_context = AllImageReplies
        /\ report_text = <<>> => (sent = <<>> /\ pc # "analyze_entry")

\* a PDF with text, then an image, then a PDF without text: the first PDF's
\* text is gone, the image's analysis is kept, no report analysis was run
C9_Witness ==
    /\ LoopCompleted
    /\ Len(uploaded_files) = 3
    /\ IsPdf(uploaded_files[1]) /\ extract_text_from_pdf(uploaded_files[1].pages) # <<>>
    /\ IsImage(uploaded_files[2])
    /\ IsPdf(uploaded_files[3])
    /\ report_text = <<>>
    /\ image_context = uploaded_files[2].reply
    /\ pc = "done"

====
